---------------------------- MODULE Spec2Model ----------------------------
(***************************************************************************)
(* The QSAR modelling workshop notebook (QSAR_modelling.ipynb) as a state  *)
(* machine.  The notebook is a sequence of code cells run top to bottom by *)
(* one kernel; a cell that raises stops the run.  The state is the kernel's *)
(* namespace (df, dataset, scaffolds, model, predictions, ...) and the     *)
(* position of the run.                                                    *)
(*                                                                         *)
(* Spec          the whole notebook, cell by cell, on small tables         *)
(* SpecFilter    the data filtering of cell 1 on arbitrary small tables    *)
(* SpecSplit     the train/test split of the preparation cell              *)
(* SpecScaffold  the scaffold table and scaffold selection cells           *)
(* SpecPredict   the prediction cell on arbitrary small SMILES lists       *)
(***************************************************************************)
EXTENDS Integers, Sequences, FiniteSets, TLC

VARIABLES
    pc,              \* position of the run: the next cell (or statement) to execute
    table,           \* df as read from data/papyrus_data.tsv
    MY_TARGET,       \* target accession
    allowed,         \* the argument of Quality.isin(...)
    df,              \* df after the filtering statements
    dataset,         \* rows of the QSPRDataset (dataset.getDF())
    columns,         \* column names of dataset.getDF()
    X,               \* index labels of the training set (dataset.X / dataset.y)
    X_ind,           \* index labels of the test set (dataset.X_ind / dataset.y_ind)
    features,        \* the descriptor table (dataset.getFeatures()), a row per record
    saved,           \* what dataset.save() wrote: <<>> before, <<snapshot>> after
    MIN_COMPOUNDS,
    NUM_SCAFFOLDS,
    SCAFFOLD_INDEX,
    scaffolds,       \* the scaffold table of the scaffold cell
    legends,         \* the grid drawn by the scaffold cell: image and legend per position
    scaffold_df,     \* the compounds listed by the scaffold selection cell
    model,           \* the QSPRsklearn object: lifecycle state, parameters, estimator, data
    scoreOf,         \* cross-validated score of every point of the search space
    trials,          \* the trials of the running hyperparameter search
    best_params,
    list_of_smiles,
    predictions,
    grid             \* the grid drawn by the prediction cell

vars == <<pc, table, MY_TARGET, allowed, df, dataset, columns, X, X_ind, features, saved,
          MIN_COMPOUNDS, NUM_SCAFFOLDS, SCAFFOLD_INDEX, scaffolds, legends,
          scaffold_df, model, scoreOf, trials, best_params, list_of_smiles,
          predictions, grid>>

dataVars == <<table, MY_TARGET, allowed, df>>
prepVars == <<dataset, columns, X, X_ind, features, saved>>
exploreVars == <<MIN_COMPOUNDS, NUM_SCAFFOLDS, SCAFFOLD_INDEX, scaffolds, legends, scaffold_df>>
trainVars == <<model, scoreOf, trials, best_params>>
predictVars == <<list_of_smiles, predictions, grid>>

(***************************************************************************)
(* Bounds of the model.                                                    *)
(***************************************************************************)
MaxRows == 4         \* rows of the input table in SpecFilter
MaxMainRows == 3     \* rows of the input table in Spec
MaxRecords == 6      \* records of the dataset in SpecSplit
MaxCompounds == 4    \* records of the dataset in SpecScaffold
MaxMinCompounds == 1 \* largest MIN_COMPOUNDS a user sets in SpecScaffold
MaxNumScaffolds == 2 \* largest NUM_SCAFFOLDS and SCAFFOLD_INDEX a user sets in SpecScaffold
MaxSmiles == 3       \* length of list_of_smiles in SpecPredict

(***************************************************************************)
(* Universes the inputs are drawn from.                                    *)
(***************************************************************************)
Accessions == {"P21802", "P00533"}
Qualities == {"High", "Medium", "Low"}
DataSmiles == {"Cc1ccccc1", "Oc1ccccc1", "CC1CCCCC1"}
Values == {5, 7}     \* pchembl_value_Median

None == "None"

\* the values the notebook ships with
DefaultNumScaffolds == 10
DefaultMinCompounds == 5
DefaultScaffoldIndex == 0
\* the name model is not bound yet
NoModel == [state |-> "undefined", params |-> <<>>, estimator |-> <<>>, data |-> <<>>]
NaN == "nan"

SeqsUpTo(S, n) == UNION {[1..k -> S] : k \in 0..n}

Range(s) == {s[i] : i \in 1..Len(s)}

\* pd.read_csv: the rows get the RangeIndex 0, 1, 2, ...
read_csv(content) ==
    [i \in 1..Len(content) |->
        [idx |-> i - 1, accession |-> content[i].accession,
         Quality |-> content[i].Quality, SMILES |-> content[i].SMILES,
         pchembl_value_Median |-> content[i].pchembl_value_Median]]

RowContents(accs, quals, smis, vals) ==
    [accession : accs, Quality : quals, SMILES : smis, pchembl_value_Median : vals]

(***************************************************************************)
(* The order of the notebook's code cells; the training cell is split into *)
(* its four statements.                                                    *)
(***************************************************************************)
NotebookFitBeforeEvaluate ==
    <<"read", "dataset", "prepare", "hist", "top", "scaffolds", "select",
      "construct", "optimize", "fit", "evaluate", "plot", "predict", "done">>

Notebook ==
    <<"read", "dataset", "prepare", "hist", "top", "scaffolds", "select",
      "construct", "optimize", "evaluate", "fit", "plot", "predict", "done">>

\* the cell or statement the kernel runs after stmt
Following(stmt) == Notebook[(CHOOSE i \in 1..Len(Notebook) : Notebook[i] = stmt) + 1]

(***************************************************************************)
(* Cell 1: data filtering.                                                 *)
(***************************************************************************)
\* df[mask]: boolean indexing keeps, in order, the rows whose mask entry is True
RECURSIVE BoolIndex(_, _)
BoolIndex(rows, mask) ==
    IF rows = <<>> THEN <<>>
    ELSE IF Head(mask)
         THEN <<Head(rows)>> \o BoolIndex(Tail(rows), Tail(mask))
         ELSE BoolIndex(Tail(rows), Tail(mask))

\* df['accession'] == MY_TARGET
EqMask(rows, target) == [i \in 1..Len(rows) |-> rows[i].accession = target]

\* df['Quality'].isin(values)
IsinMask(rows, values) == [i \in 1..Len(rows) |-> rows[i].Quality \in values]

FilterRowsNoQuality(rows, target, values) == BoolIndex(rows, EqMask(rows, target))

FilterRowsSkipHead(rows, target, values) ==
    LET byTarget == BoolIndex(rows, EqMask(rows, target))
        byQuality == BoolIndex(byTarget, IsinMask(byTarget, values))
    IN  IF byQuality = <<>> THEN <<>> ELSE Tail(byQuality)

\* df = df[df['accession'] == MY_TARGET]; df = df[df['Quality'].isin([...])]
FilterRows(rows, target, values) ==
    LET byTarget == BoolIndex(rows, EqMask(rows, target))
    IN  BoolIndex(byTarget, IsinMask(byTarget, values))

idleData == /\ table = <<>> /\ MY_TARGET = "P21802" /\ allowed = {"High"} /\ df = <<>>
idlePrep ==
    /\ dataset = <<>> /\ columns = {} /\ X = <<>> /\ X_ind = <<>> /\ features = <<>>
    /\ saved = <<>>
idleExplore ==
    /\ MIN_COMPOUNDS = DefaultMinCompounds /\ NUM_SCAFFOLDS = DefaultNumScaffolds
    /\ SCAFFOLD_INDEX = DefaultScaffoldIndex
    /\ scaffolds = <<>> /\ legends = <<>> /\ scaffold_df = <<>>
idleTrain == /\ model = NoModel /\ scoreOf = <<>> /\ trials = <<>> /\ best_params = <<>>
idlePredict == /\ list_of_smiles = <<>> /\ predictions = <<>> /\ grid = <<>>

(***************************************************************************)
(* SpecFilter: the filtering statements on every small table, target and   *)
(* quality set; ReFilter applies the same two statements to their result.  *)
(***************************************************************************)
InitFilter ==
    /\ pc = "filter"
    /\ \E content \in SeqsUpTo(RowContents(Accessions, Qualities, {"Cc1ccccc1"}, {7}), MaxRows) :
          table = read_csv(content)
    /\ MY_TARGET \in Accessions
    /\ allowed \in SUBSET Qualities
    /\ df = table
    /\ idlePrep /\ idleExplore /\ idleTrain /\ idlePredict

FilterStatements ==
    /\ pc = "filter"
    /\ df' = FilterRows(df, MY_TARGET, allowed)
    /\ pc' = "filtered"
    /\ UNCHANGED <<table, MY_TARGET, allowed, prepVars, exploreVars, trainVars, predictVars>>

ReFilter ==
    /\ pc = "filtered"
    /\ df' = FilterRows(df, MY_TARGET, allowed)
    /\ pc' = "refiltered"
    /\ UNCHANGED <<table, MY_TARGET, allowed, prepVars, exploreVars, trainVars, predictVars>>

NextFilter == FilterStatements \/ ReFilter

SpecFilter == InitFilter /\ [][NextFilter]_vars

Matches(r) == r.accession = MY_TARGET /\ r.Quality \in allowed

\* C1: the filter returns exactly the rows whose accession equals the target and
\* whose Quality is in the allowed set: every matching row of the table is in the
\* result once, in table order, and no other row is.
C1_FilterExact ==
    pc = "filtered" =>
        /\ \A i \in 1..Len(table) : Matches(table[i]) <=> table[i] \in Range(df)
        /\ Range(df) \subseteq Range(table)
        /\ Len(df) = Cardinality({i \in 1..Len(table) : Matches(table[i])})
        /\ \A i, j \in 1..Len(df) : i < j => df[i].idx < df[j].idx

C1_Witness ==
    /\ pc = "filtered"
    /\ Len(table) = 3 /\ Len(df) = 1
    /\ \E i \in 1..3 : table[i].accession = MY_TARGET /\ table[i].Quality \notin allowed
    /\ \E i \in 1..3 : table[i].accession # MY_TARGET /\ table[i].Quality \in allowed

\* C10: filtering is idempotent: applying the accession-and-quality filter to the
\* already filtered table returns the same rows.
C10_FilterIdempotent == [][(pc = "filtered" /\ pc' = "refiltered") => df' = df]_vars

C10_Witness == pc = "refiltered" /\ Len(df) >= 1 /\ Len(df) < Len(table)

(***************************************************************************)
(* Cells 2 and 3: QSPRDataset.fromMolTable and dataset.prepareDataset.     *)
(***************************************************************************)
BaseColumns == {"accession", "Quality", "SMILES", "pchembl_value_Median"}

rand_split_train_fraction == [num |-> 8, den |-> 10]

\* rand_split = randomsplit(0.2): the fraction of the records held out
rand_split == [num |-> 2, den |-> 10]

\* ceil(test_size * n_samples)
NumTest(split, n) == (split.num * n + split.den - 1) \div split.den

\* The shuffle split behind randomsplit: a random permutation of the positions,
\* its first n_test entries the test set and the following n_train the training
\* set; it raises when either set would be empty.
SplitFails(split, n) == n = 0 \/ NumTest(split, n) = 0 \/ n - NumTest(split, n) <= 0

ShuffleSplits(split, n) ==
    LET n_test == NumTest(split, n)
        n_train == n - n_test
    IN  {[test |-> [i \in 1..n_test |-> p[i]],
          train |-> [i \in 1..n_train |-> p[n_test + i]]] : p \in Permutations(1..n)}

\* dataset = QSPRDataset.fromMolTable(mt, target_props=target_props)
DatasetCell ==
    /\ pc = "dataset"
    /\ dataset' = df
    /\ columns' = BaseColumns
    /\ pc' = Following("dataset")
    /\ UNCHANGED <<dataVars, X, X_ind, features, saved, exploreVars, trainVars, predictVars>>

\* FingerprintSet(fingerprint_type="MorganFP", radius=3, nBits=2048): the bit
\* vector of a structure, a function of the structure
MorganFP(smiles) == "MorganFP(" \o smiles \o ", radius=3, nBits=2048)"

\* dataset.prepareDataset(split=rand_split, feature_calculators=[...]); the
\* prints; dataset.save()
PrepareCell ==
    /\ pc = "prepare"
    /\ IF SplitFails(rand_split, Len(dataset))
       THEN /\ pc' = "error"
            /\ UNCHANGED <<X, X_ind, features, saved>>
       ELSE \E s \in ShuffleSplits(rand_split, Len(dataset)) :
              /\ X' = [i \in 1..Len(s.train) |-> dataset[s.train[i]].idx]
              /\ X_ind' = [i \in 1..Len(s.test) |-> dataset[s.test[i]].idx]
              /\ features' = [i \in 1..Len(dataset) |->
                                [idx |-> dataset[i].idx, fp |-> MorganFP(dataset[i].SMILES)]]
              /\ saved' = <<[rows |-> dataset, columns |-> columns, X |-> X', X_ind |-> X_ind',
                             features |-> features']>>
              /\ pc' = Following("prepare")
    /\ UNCHANGED <<dataVars, dataset, columns, exploreVars, trainVars, predictVars>>

(***************************************************************************)
(* SpecSplit: the preparation cell on datasets of 0..MaxRecords records.   *)
(***************************************************************************)
InitSplit ==
    /\ pc = "prepare"
    /\ \E n \in 0..MaxRecords :
          dataset = read_csv([i \in 1..n |->
                        [accession |-> "P21802", Quality |-> "High",
                         SMILES |-> "Cc1ccccc1", pchembl_value_Median |-> 7]])
    /\ columns = BaseColumns
    /\ X = <<>> /\ X_ind = <<>> /\ features = <<>> /\ saved = <<>>
    /\ idleData /\ idleExplore /\ idleTrain /\ idlePredict

NextSplit == PrepareCell

SpecSplit == InitSplit /\ [][NextSplit]_vars

\* C3: after dataset preparation with holdout fraction 0.2 the training set and
\* the test set are a disjoint partition of the records (every record in exactly
\* one of them, none twice), train size = total - test size, and the test set
\* size is 20% of the record count within rounding (less than one record off).
C3_SplitPartition ==
    saved # <<>> =>
        LET all == {dataset[i].idx : i \in 1..Len(dataset)}
            n == Len(dataset)
        IN  /\ Range(X) \cap Range(X_ind) = {}
            /\ Range(X) \cup Range(X_ind) = all
            /\ Len(X) = Cardinality(Range(X))
            /\ Len(X_ind) = Cardinality(Range(X_ind))
            /\ Len(X) = n - Len(X_ind)
            /\ 5 * Len(X_ind) - n < 5
            /\ n - 5 * Len(X_ind) < 5

C3_Witness == saved # <<>> /\ Len(dataset) = 6 /\ Len(X_ind) = 2 /\ Len(X) = 4

(***************************************************************************)
(* Exploration cells: the scaffold table and the scaffold selection.       *)
(***************************************************************************)
\* Chem.MolFromSmiles on the structures of the model: a molecule, or None for a
\* string that does not parse
Malformed == "not-a-smiles"

MolFromSmiles(smiles) == IF smiles = Malformed THEN None ELSE "Mol(" \o smiles \o ")"

\* Murcko(): the ring system of the molecule
Murcko(smiles) ==
    CASE smiles = "Cc1ccccc1" -> "c1ccccc1"
      [] smiles = "Oc1ccccc1" -> "c1ccccc1"
      [] smiles = "CC1CCCCC1" -> "C1CCCCC1"

\* the scaffolds of the model in the key order of groupby ('C' sorts before 'c')
ScaffoldOrder == <<"C1CCCCC1", "c1ccccc1">>

\* dataset.addScaffolds([Murcko()]): a new column Scaffold_Murcko in the dataset
addScaffoldsOverSmiles(rows) ==
    [i \in 1..Len(rows) |->
        [idx |-> rows[i].idx, accession |-> rows[i].accession,
         Quality |-> rows[i].Quality, SMILES |-> Murcko(rows[i].SMILES),
         pchembl_value_Median |-> rows[i].pchembl_value_Median,
         Scaffold_Murcko |-> Murcko(rows[i].SMILES)]]

addScaffolds(rows) ==
    [i \in 1..Len(rows) |->
        [idx |-> rows[i].idx, accession |-> rows[i].accession,
         Quality |-> rows[i].Quality, SMILES |-> rows[i].SMILES,
         pchembl_value_Median |-> rows[i].pchembl_value_Median,
         Scaffold_Murcko |-> Murcko(rows[i].SMILES)]]

GroupKeys(rows) ==
    SelectSeq(ScaffoldOrder, LAMBDA s : \E i \in 1..Len(rows) : rows[i].Scaffold_Murcko = s)

GroupRows(rows, s) == SelectSeq(rows, LAMBDA r : r.Scaffold_Murcko = s)

RECURSIVE SumColumn(_)
SumColumn(rows) ==
    IF rows = <<>> THEN 0 ELSE Head(rows).pchembl_value_Median + SumColumn(Tail(rows))

\* groupby('Scaffold_Murcko')['pchembl_value_Median'].mean(): a series indexed by
\* scaffold; the mean is kept as the fraction num/den
GroupByMean(rows) ==
    LET keys == GroupKeys(rows)
    IN  [i \in 1..Len(keys) |->
            [Scaffold |-> keys[i],
             value |-> [num |-> SumColumn(GroupRows(rows, keys[i])),
                        den |-> Len(GroupRows(rows, keys[i]))]]]

\* groupby('Scaffold_Murcko')['pchembl_value_Median'].count()
GroupByCount(rows) ==
    LET keys == GroupKeys(rows)
    IN  [i \in 1..Len(keys) |->
            [Scaffold |-> keys[i], value |-> Len(GroupRows(rows, keys[i]))]]

FracGeq(a, b) == a.num * b.den >= b.num * a.den

Reorderings(s) == {[i \in 1..Len(s) |-> s[p[i]]] : p \in Permutations(1..Len(s))}

\* sort_values(ascending=False) on the series of means: the default sort is not
\* stable, so entries with equal keys come out in any order
SortMeansDescending(series) ==
    {t \in Reorderings(series) :
        \A i, j \in 1..Len(t) : i < j => FracGeq(t[i].value, t[j].value)}

\* sort_values(by='pchembl_value_Median', ascending=False) on rows
SortRowsDescending(rows) ==
    {t \in Reorderings(rows) :
        \A i, j \in 1..Len(t) : i < j => t[i].pchembl_value_Median >= t[j].pchembl_value_Median}

Index(series) == [i \in 1..Len(series) |-> series[i].Scaffold]

RECURSIVE Unique(_)
Unique(labels) ==
    IF labels = <<>> THEN <<>>
    ELSE LET rest == Unique(SubSeq(labels, 1, Len(labels) - 1))
             last == labels[Len(labels)]
         IN  IF last \in Range(rest) THEN rest ELSE Append(rest, last)

\* series[label]
Loc(series, label) == series[CHOOSE i \in 1..Len(series) : series[i].Scaffold = label].value

ConcatByPosition(means, counts) ==
    [i \in 1..Len(means) |->
        [Scaffold |-> means[i].Scaffold, Average |-> means[i].value, Count |-> counts[i].value]]

\* pd.concat([means, counts], axis=1) and the renaming of the count column: the
\* rows are the labels of the first series followed by the labels only the second
\* has; each column is looked up by label
Concat(means, counts) ==
    LET index == IF Index(means) = Index(counts) THEN Index(means)
                 ELSE Unique(Index(means) \o Index(counts))
    IN  [i \in 1..Len(index) |->
            [Scaffold |-> index[i],
             Average |-> IF index[i] \in Range(Index(means)) THEN Loc(means, index[i]) ELSE NaN,
             Count |-> IF index[i] \in Range(Index(counts)) THEN Loc(counts, index[i]) ELSE NaN]]

KeepCountAtLeast(tbl, min) == SelectSeq(tbl, LAMBDA r : r.Count >= min)

\* scaffolds[scaffolds['Count'] > MIN_COMPOUNDS]
KeepCount(tbl, min) == SelectSeq(tbl, LAMBDA r : r.Count > min)

Min(a, b) == IF a < b THEN a ELSE b

\* label lookups of the legend f-string
TableLoc(tbl, label) == tbl[CHOOSE i \in 1..Len(tbl) : tbl[i].Scaffold = label]

ScaffoldGridFromOne(tbl, num) ==
    [i \in 1..Min(num, Len(tbl)) |->
        [image |-> MolFromSmiles(tbl[i].Scaffold),
         index |-> i,
         average |-> TableLoc(tbl, tbl[i].Scaffold).Average,
         count |-> TableLoc(tbl, tbl[i].Scaffold).Count]]

\* Draw.MolsToGridImage over scaffolds.index[:NUM_SCAFFOLDS]: per position the
\* image and the legend "{idx}: {average} ({count})", idx from enumerate.  The
\* rendering of the average to two decimals is not modelled.
ScaffoldGrid(tbl, num) ==
    [i \in 1..Min(num, Len(tbl)) |->
        [image |-> MolFromSmiles(tbl[i].Scaffold),
         index |-> i - 1,
         average |-> TableLoc(tbl, tbl[i].Scaffold).Average,
         count |-> TableLoc(tbl, tbl[i].Scaffold).Count]]

\* the scaffold cell; NUM_SCAFFOLDS and MIN_COMPOUNDS are the values the user
\* left or put in it, among nums and mins
ScaffoldCell(nums, mins) ==
    /\ pc = "scaffolds"
    /\ \E num \in nums, min \in mins :
        /\ NUM_SCAFFOLDS' = num
        /\ MIN_COMPOUNDS' = min
        /\ dataset' = addScaffolds(dataset)
        /\ columns' = columns \cup {"Scaffold_Murcko"}
        /\ \E means \in SortMeansDescending(GroupByMean(dataset')) :
              scaffolds' = KeepCount(Concat(means, GroupByCount(dataset')), min)
        /\ legends' = ScaffoldGrid(scaffolds', num)
    /\ pc' = Following("scaffolds")
    /\ UNCHANGED <<dataVars, X, X_ind, features, saved, SCAFFOLD_INDEX, scaffold_df, trainVars,
                   predictVars>>

\* the scaffold selection cell; scaffolds.index[SCAFFOLD_INDEX] raises IndexError
\* past the end of the table
SelectCell(indexes) ==
    /\ pc = "select"
    /\ \E i \in indexes :
        /\ SCAFFOLD_INDEX' = i
        /\ IF i >= Len(scaffolds)
           THEN /\ pc' = "error"
                /\ UNCHANGED scaffold_df
           ELSE LET scaffold == scaffolds[i + 1].Scaffold
                    rows == SelectSeq(dataset, LAMBDA r : r.Scaffold_Murcko = scaffold)
                IN  /\ scaffold_df' \in SortRowsDescending(rows)
                    /\ pc' = Following("select")
    /\ UNCHANGED <<dataVars, prepVars, MIN_COMPOUNDS, NUM_SCAFFOLDS, scaffolds, legends,
                   trainVars, predictVars>>

(***************************************************************************)
(* SpecScaffold: the two scaffold cells on every small dataset.            *)
(***************************************************************************)
InitScaffold ==
    /\ pc = "scaffolds"
    /\ \E content \in SeqsUpTo(RowContents({"P21802"}, {"High"}, DataSmiles, Values), MaxCompounds) :
          dataset = read_csv(content)
    /\ columns = BaseColumns
    /\ X = <<>> /\ X_ind = <<>> /\ features = <<>> /\ saved = <<>>
    /\ idleData /\ idleExplore /\ idleTrain /\ idlePredict

\* the values a user puts in the two cells
UserNumScaffolds == (1..MaxNumScaffolds) \cup {DefaultNumScaffolds}

UserMinCompounds == 0..MaxMinCompounds

UserScaffoldIndexes == 0..MaxNumScaffolds

NextScaffold ==
    \/ ScaffoldCell(UserNumScaffolds, UserMinCompounds)
    \/ SelectCell(UserScaffoldIndexes)

SpecScaffold == InitScaffold /\ [][NextScaffold]_vars

ScaffoldCellRan == "Scaffold_Murcko" \in columns

\* the records of the dataset with Murcko scaffold s
RecordsOf(s) == {i \in 1..Len(dataset) : Murcko(dataset[i].SMILES) = s}

RECURSIVE TotalOf(_)
TotalOf(I) ==
    IF I = {} THEN 0
    ELSE LET i == CHOOSE k \in I : TRUE
         IN  dataset[i].pchembl_value_Median + TotalOf(I \ {i})

ScaffoldsPresent == {Murcko(dataset[i].SMILES) : i \in 1..Len(dataset)}

InTable == {scaffolds[i].Scaffold : i \in 1..Len(scaffolds)}

C7_AtLeastMinKept ==
    ScaffoldCellRan =>
        \A s \in ScaffoldsPresent :
            Cardinality(RecordsOf(s)) >= MIN_COMPOUNDS => s \in InTable

\* C8: in the final scaffold table each scaffold's average is the arithmetic mean
\* of the target values of all records with that scaffold, its Count is the number
\* of those records, the rows are in descending order of the mean, and the images
\* displayed are the first NUM_SCAFFOLDS rows: the qualifying scaffolds with the
\* highest means.
C8_MeanCountOrder ==
    ScaffoldCellRan =>
        /\ \A i \in 1..Len(scaffolds) :
              LET r == scaffolds[i]
                  recs == RecordsOf(r.Scaffold)
              IN  /\ r.Count = Cardinality(recs)
                  /\ r.Average.den > 0
                  /\ r.Average.num * Cardinality(recs) = TotalOf(recs) * r.Average.den
        /\ \A i, j \in 1..Len(scaffolds) :
              i < j => FracGeq(scaffolds[i].Average, scaffolds[j].Average)
        /\ Len(legends) = Min(NUM_SCAFFOLDS, Len(scaffolds))
        /\ \A k \in 1..Len(legends) :
              /\ legends[k].image = MolFromSmiles(scaffolds[k].Scaffold)
              /\ legends[k].average = scaffolds[k].Average
              /\ legends[k].count = Cardinality(RecordsOf(scaffolds[k].Scaffold))
        /\ \A s \in ScaffoldsPresent :
              (Cardinality(RecordsOf(s)) > MIN_COMPOUNDS
                 /\ \A k \in 1..Len(legends) : legends[k].image # MolFromSmiles(s))
              => \A k \in 1..Len(legends) :
                    TotalOf(RecordsOf(scaffolds[k].Scaffold)) * Cardinality(RecordsOf(s))
                      >= TotalOf(RecordsOf(s)) * Cardinality(RecordsOf(scaffolds[k].Scaffold))

C8_Witness ==
    /\ ScaffoldCellRan
    /\ Len(scaffolds) = 2 /\ NUM_SCAFFOLDS = 1
    /\ scaffolds[1].Scaffold = "c1ccccc1" /\ scaffolds[1].Count = 2 /\ scaffolds[2].Count = 1
    /\ scaffolds[1].Average = [num |-> 12, den |-> 2]

\* C9: the index printed first under a displayed scaffold image identifies that
\* scaffold: with SCAFFOLD_INDEX set to it the selection cell lists exactly the
\* dataset records whose Murcko scaffold is the one drawn in that image, in
\* descending order of target value.
C9_IndexSelectsShown ==
    (pc = "construct" /\ ScaffoldCellRan) =>
        \A k \in 1..Len(legends) :
            legends[k].index = SCAFFOLD_INDEX =>
                /\ Range(scaffold_df) =
                      {dataset[i] : i \in {j \in 1..Len(dataset) :
                            MolFromSmiles(Murcko(dataset[j].SMILES)) = legends[k].image}}
                /\ Len(scaffold_df) = Cardinality(Range(scaffold_df))
                /\ \A a, b \in 1..Len(scaffold_df) :
                      a < b => scaffold_df[a].pchembl_value_Median >= scaffold_df[b].pchembl_value_Median

C9_Witness ==
    /\ pc = "construct" /\ ScaffoldCellRan
    /\ SCAFFOLD_INDEX = 1 /\ Len(legends) = 2 /\ legends[2].index = 1
    /\ Len(scaffold_df) = 2 /\ Len(dataset) = 3
    /\ scaffold_df[1].pchembl_value_Median > scaffold_df[2].pchembl_value_Median

(***************************************************************************)
(* Cell 1 as a whole, and the two read-only exploration cells.             *)
(***************************************************************************)
\* read_csv, the two filtering statements, MoleculeTable(df=df, ...)
ReadCell ==
    /\ pc = "read"
    /\ df' = FilterRows(table, MY_TARGET, allowed)
    /\ pc' = Following("read")
    /\ UNCHANGED <<table, MY_TARGET, allowed, prepVars, exploreVars, trainVars, predictVars>>

\* sns.histplot(dataset.getDF()['pchembl_value_Median'], bins=20)
HistCell ==
    /\ pc = "hist"
    /\ pc' = Following("hist")
    /\ UNCHANGED <<dataVars, prepVars, exploreVars, trainVars, predictVars>>

\* the grid of the NUM_COMPOUNDS compounds with the highest pchembl values
TopCell ==
    /\ pc = "top"
    /\ pc' = Following("top")
    /\ UNCHANGED <<dataVars, prepVars, exploreVars, trainVars, predictVars>>

(***************************************************************************)
(* The training cell.                                                      *)
(***************************************************************************)
n_trials_one_short == 5 - 1

n_trials == 5

\* points of search_space_bs: n_components in 1..30, scale in {True, False}
ParamGrid == {[n_components |-> 1, scale |-> TRUE], [n_components |-> 30, scale |-> FALSE]}

Scores == {0, 1}

ReferenceSmiles == <<"OCCc1ccn2cnccc12", "C1CC1Oc1cc2ccncn2c1", "CNC(=O)c1nccc2cccn12">>

\* predicted values, in thousandths
Preds == {5123, 6480}

\* what training reads of the dataset it is bound to: the feature matrix, the
\* train/test assignment and the target property
TrainingInputs(rows, feats, train, test) ==
    [features |-> feats, X |-> train, X_ind |-> test,
     y |-> [i \in 1..Len(rows) |-> [idx |-> rows[i].idx, target |-> rows[i].pchembl_value_Median]]]

\* model = QSPRsklearn(base_dir='.', data=dataset, alg=PLSRegression, name='PLS_REG')
Construct ==
    /\ pc = "construct"
    /\ model' = [state |-> "Unconfigured", params |-> <<>>, estimator |-> <<>>,
                 data |-> <<TrainingInputs(dataset, features, X, X_ind)>>]
    /\ pc' = Following("construct")
    /\ UNCHANGED <<dataVars, prepVars, exploreVars, scoreOf, trials, best_params, predictVars>>

\* bayesoptimizer.optimize(model) starts: the cross-validated score of a point
\* of the search space is a function of the point
OptimizeStart ==
    /\ pc = "optimize"
    /\ model' = [model EXCEPT !.state = "Optimizing"]
    /\ scoreOf' \in [ParamGrid -> Scores]
    /\ trials' = <<>>
    /\ pc' = "trial"
    /\ UNCHANGED <<dataVars, prepVars, exploreVars, best_params, predictVars>>

AllScored(ts) == \A i \in 1..Len(ts) : ts[i].scored

\* the search proposes the parameters of the next trial; it runs its trials in
\* one loop, so it does so once the trial before has its score
Propose ==
    /\ pc = "trial"
    /\ Len(trials) < n_trials
    /\ AllScored(trials)
    /\ \E p \in ParamGrid : trials' = Append(trials, [params |-> p, scored |-> FALSE, score |-> 0])
    /\ UNCHANGED <<pc, dataVars, prepVars, exploreVars, model, scoreOf, best_params, predictVars>>

\* the objective of the proposed trial is evaluated: its cross-validated score
Score ==
    /\ pc = "trial"
    /\ trials # <<>>
    /\ ~trials[Len(trials)].scored
    /\ trials' = [trials EXCEPT ![Len(trials)] =
                      [params |-> @.params, scored |-> TRUE, score |-> scoreOf[@.params]]]
    /\ UNCHANGED <<pc, dataVars, prepVars, exploreVars, model, scoreOf, best_params, predictVars>>

\* the best trial: the highest score, the earliest among equals
Best(ts) ==
    ts[CHOOSE i \in 1..Len(ts) :
          /\ \A j \in 1..Len(ts) : ts[j].score <= ts[i].score
          /\ \A j \in 1..(i - 1) : ts[j].score < ts[i].score]

\* the trial budget is spent: the parameters of the best trial are stored in
\* the model (PLS_REG_params.json)
OptimizeEnd ==
    /\ pc = "trial"
    /\ Len(trials) = n_trials
    /\ AllScored(trials)
    /\ model' = [model EXCEPT !.params = <<Best(trials).params>>]
    /\ pc' = "return"
    /\ UNCHANGED <<dataVars, prepVars, exploreVars, scoreOf, trials, best_params, predictVars>>

\* best_params = bayesoptimizer.optimize(model): the call returns; the study with
\* its trials is local to it
OptimizeReturn ==
    /\ pc = "return"
    /\ best_params' = model.params
    /\ trials' = <<>>
    /\ pc' = Following("optimize")
    /\ UNCHANGED <<dataVars, prepVars, exploreVars, model, scoreOf, predictVars>>

\* _ = model.evaluate()
Evaluate ==
    /\ pc = "evaluate"
    /\ model' = [model EXCEPT !.state = "Evaluated"]
    /\ pc' = Following("evaluate")
    /\ UNCHANGED <<dataVars, prepVars, exploreVars, scoreOf, trials, best_params, predictVars>>

\* model.fit(): the estimator fitted on all the data, a function of the structure
Fit ==
    /\ pc = "fit"
    /\ \E f \in [Range(ReferenceSmiles) -> Preds] :
          model' = [model EXCEPT !.state = "Fitted", !.estimator = <<f>>]
    /\ pc' = Following("fit")
    /\ UNCHANGED <<dataVars, prepVars, exploreVars, scoreOf, trials, best_params, predictVars>>

\* CorrelationPlot([model]).make(...); print(summary)
PlotCell ==
    /\ pc = "plot"
    /\ pc' = Following("plot")
    /\ UNCHANGED <<dataVars, prepVars, exploreVars, trainVars, predictVars>>

(***************************************************************************)
(* The prediction cell.                                                    *)
(***************************************************************************)
\* a float: a number in thousandths, or nan
Num(v) == [nan |-> FALSE, milli |-> v]

NanValue == [nan |-> TRUE, milli |-> 0]

WellFormed(smiles) == \A i \in 1..Len(smiles) : smiles[i] # Malformed

\* model.predictMols(list_of_smiles): one row per structure, the prediction in
\* its column 0, aligned with the input by position.  For a list with a
\* malformed string the call aborts, or fills that row with nan, or skips it.
predictMols(m, smiles) ==
    IF m.estimator = <<>> THEN {[raised |-> TRUE, rows |-> <<>>]}
    ELSE LET f == m.estimator[1]
             valid == SelectSeq(smiles, LAMBDA x : x # Malformed)
         IN  IF WellFormed(smiles)
             THEN {[raised |-> FALSE, rows |-> [i \in 1..Len(smiles) |-> <<Num(f[smiles[i]])>>]]}
             ELSE {[raised |-> TRUE, rows |-> <<>>],
                   [raised |-> FALSE,
                    rows |-> [i \in 1..Len(smiles) |->
                                IF smiles[i] = Malformed THEN <<NanValue>> ELSE <<Num(f[smiles[i]])>>]],
                   [raised |-> FALSE, rows |-> [i \in 1..Len(valid) |-> <<Num(f[valid[i]])>>]]}

Digit(d) == ToString(d)

\* f'{x:.3f}'
Format3f(x) ==
    IF x.nan THEN "nan"
    ELSE ToString(x.milli \div 1000) \o "." \o Digit((x.milli \div 100) % 10)
            \o Digit((x.milli \div 10) % 10) \o Digit(x.milli % 10)

\* mols = [Chem.MolFromSmiles(smi) for smi in list_of_smiles]
Mols(smiles) == [i \in 1..Len(smiles) |-> MolFromSmiles(smiles[i])]

PredictionLegendsReversed(preds) ==
    [i \in 1..Len(preds) |-> Format3f(preds[Len(preds) + 1 - i][1])]

\* legends=[f'{pred[0]:.3f}' for pred in predictions]
PredictionLegends(preds) == [i \in 1..Len(preds) |-> Format3f(preds[i][1])]

\* Draw.MolsToGridImage(mols, legends=...): position i shows mols[i] over legends[i]
MolsToGridImage(mols, legs) == [i \in 1..Len(mols) |-> [image |-> mols[i], legend |-> legs[i]]]

PredictCell ==
    /\ pc = "predict"
    /\ \E out \in predictMols(model, list_of_smiles) :
          IF out.raised
          THEN /\ pc' = "error"
               /\ UNCHANGED <<predictions, grid>>
          ELSE /\ predictions' = out.rows
               /\ IF Len(PredictionLegends(out.rows)) # Len(Mols(list_of_smiles))
                  THEN /\ pc' = "error"
                       /\ UNCHANGED grid
                  ELSE /\ grid' = MolsToGridImage(Mols(list_of_smiles), PredictionLegends(out.rows))
                       /\ pc' = Following("predict")
    /\ UNCHANGED <<dataVars, prepVars, exploreVars, trainVars, list_of_smiles>>

(***************************************************************************)
(* SpecPredict: the prediction cell on a fitted model, for every small     *)
(* list of structure strings.                                              *)
(***************************************************************************)
InitPredict ==
    /\ pc = "predict"
    /\ \E f \in [Range(ReferenceSmiles) -> Preds] :
          model = [state |-> "Fitted", params |-> <<CHOOSE g \in ParamGrid : TRUE>>,
                   estimator |-> <<f>>, data |-> <<>>]
    /\ scoreOf = <<>> /\ trials = <<>> /\ best_params = <<>>
    /\ list_of_smiles \in SeqsUpTo(Range(ReferenceSmiles) \cup {Malformed}, MaxSmiles) \ {<<>>}
    /\ predictions = <<>> /\ grid = <<>>
    /\ idleData /\ idlePrep /\ idleExplore

NextPredict == PredictCell

SpecPredict == InitPredict /\ [][NextPredict]_vars

\* C4: on a fitted model prediction returns, for every list of n structure
\* strings, exactly n predictions in input order, the i-th the prediction of the
\* i-th structure, and each displayed molecule is labelled with its own
\* prediction.
C4_PredictionsAligned ==
    (pc # "predict" /\ WellFormed(list_of_smiles)) =>
        /\ pc = "done"
        /\ Len(predictions) = Len(list_of_smiles)
        /\ Len(grid) = Len(list_of_smiles)
        /\ \A i \in 1..Len(list_of_smiles) :
              LET own == Num(model.estimator[1][list_of_smiles[i]])
              IN  /\ predictions[i] = <<own>>
                  /\ grid[i].image = MolFromSmiles(list_of_smiles[i])
                  /\ grid[i].legend = Format3f(own)

C4_Witness ==
    /\ pc = "done"
    /\ list_of_smiles = ReferenceSmiles
    /\ Len(predictions) = 3
    /\ predictions[1] # predictions[2]
    /\ grid[3].legend = "6.480"

(***************************************************************************)
(* Spec: the notebook run from its first cell, on the table of the file.   *)
(***************************************************************************)
MainRows ==
    {[accession |-> "P21802", Quality |-> "High", SMILES |-> "Cc1ccccc1", pchembl_value_Median |-> 7],
     [accession |-> "P21802", Quality |-> "High", SMILES |-> "CC1CCCCC1", pchembl_value_Median |-> 5],
     [accession |-> "P00533", Quality |-> "Low", SMILES |-> "Oc1ccccc1", pchembl_value_Median |-> 5]}

Init ==
    /\ pc = "read"
    /\ \E content \in SeqsUpTo(MainRows, MaxMainRows) : table = read_csv(content)
    /\ MY_TARGET = "P21802"
    /\ allowed = {"High"}
    /\ df = <<>>
    /\ list_of_smiles = ReferenceSmiles
    /\ predictions = <<>> /\ grid = <<>>
    /\ idlePrep /\ idleExplore /\ idleTrain

Next ==
    \/ ReadCell
    \/ DatasetCell
    \/ PrepareCell
    \/ HistCell
    \/ TopCell
    \/ ScaffoldCell({DefaultNumScaffolds}, {0, DefaultMinCompounds})
    \/ SelectCell({DefaultScaffoldIndex})
    \/ Construct
    \/ OptimizeStart
    \/ Propose
    \/ Score
    \/ OptimizeEnd
    \/ OptimizeReturn
    \/ Evaluate
    \/ Fit
    \/ PlotCell
    \/ PredictCell

Spec == Init /\ [][Next]_vars

Rank(state) ==
    CASE state = "undefined" -> 0
      [] state = "Unconfigured" -> 1
      [] state = "Optimizing" -> 2
      [] state = "Evaluated" -> 3
      [] state = "Fitted" -> 4

\* C2: the model lifecycle only moves forward through Unconfigured, Optimizing,
\* Evaluated, Fitted, one state at a time (none skipped, none re-entered);
\* evaluate runs only once the optimisation has produced the best parameter set,
\* fit only after evaluate, and predictMols is called only on a Fitted model.
C2_LifecycleForward ==
    [][/\ Rank(model'.state) \in {Rank(model.state), Rank(model.state) + 1}
       /\ (pc = "evaluate" /\ pc' # pc) => (best_params # <<>> /\ model.state = "Optimizing")
       /\ (pc = "fit" /\ pc' # pc) => model.state = "Evaluated"
       /\ (pc = "predict" /\ pc' # pc) => model.state = "Fitted"]_vars

C2_Witness ==
    /\ pc = "done"
    /\ model.state = "Fitted"
    /\ best_params # <<>>
    /\ Len(predictions) = 3

\* C11: the hyperparameter search runs exactly the configured 5 trials, one
\* after another, a trial's parameters being proposed only once every earlier
\* trial has its score; when it ends the best parameter set stored and returned
\* is that of the trial with the best score, the earliest among equal best scores.
C11_SequentialSearchBestFirst ==
    /\ Len(trials) <= 5
    /\ \A i \in 1..(Len(trials) - 1) : trials[i].scored
    /\ pc = "return" =>
          /\ Len(trials) = 5
          /\ \A i \in 1..5 : trials[i].scored
          /\ \E i \in 1..5 :
                /\ model.params = <<trials[i].params>>
                /\ \A j \in 1..5 : trials[j].score <= trials[i].score
                /\ \A j \in 1..5 : j < i => trials[j].score < trials[i].score
    /\ best_params # <<>> => best_params = model.params

C11_Witness ==
    /\ pc = "return"
    /\ Len(trials) = 5
    /\ trials[1].params # trials[2].params
    /\ trials[1].score = 1 /\ trials[2].score = 1
    /\ trials[3].params = trials[2].params
    /\ model.params = <<trials[1].params>>

AfterExploration ==
    pc \in {"construct", "optimize", "trial", "return", "evaluate", "fit", "plot", "predict", "done"}

\* C12 as stated: after the exploration stage the dataset's records, columns,
\* train/test assignment and feature matrix are what the preparation step
\* persisted, and training reads nothing the exploration computed.
C12_ExplorationReadOnly ==
    AfterExploration =>
        /\ dataset = saved[1].rows
        /\ columns = saved[1].columns
        /\ X = saved[1].X /\ X_ind = saved[1].X_ind
        /\ features = saved[1].features
        /\ model.data # <<>> =>
              model.data[1] = TrainingInputs(saved[1].rows, saved[1].features, saved[1].X, saved[1].X_ind)

\* C12 amended: the exploration stage adds the column Scaffold_Murcko to the
\* dataset in memory and changes nothing else: the records (their number, order
\* and every persisted column's values), the train/test assignment and the
\* feature matrix are what the preparation step persisted, and training reads
\* only those.
C12_OnlyScaffoldColumnAdded ==
    AfterExploration =>
        /\ columns = saved[1].columns \cup {"Scaffold_Murcko"}
        /\ Len(dataset) = Len(saved[1].rows)
        /\ \A i \in 1..Len(dataset) :
              \A c \in saved[1].columns \cup {"idx"} : dataset[i][c] = saved[1].rows[i][c]
        /\ X = saved[1].X /\ X_ind = saved[1].X_ind
        /\ features = saved[1].features
        /\ model.data # <<>> =>
              model.data[1] = TrainingInputs(saved[1].rows, saved[1].features, saved[1].X, saved[1].X_ind)

C12_Witness ==
    /\ pc = "done"
    /\ model.state = "Fitted"
    /\ Len(dataset) = 3
    /\ "Scaffold_Murcko" \in columns
    /\ "Scaffold_Murcko" \notin saved[1].columns
    /\ scaffold_df # <<>>

=============================================================================
